---- MODULE Spec2Model ----
(***************************************************************************)
(* Model of balloon_sim.py: a hot-air-balloon GPS emulator.  A keyboard    *)
(* thread adjusts the vertical speed; the main thread opens a serial port, *)
(* then loops: advance altitude, query the wind table, propagate the       *)
(* position on a sphere, encode three NMEA sentences, write them, print a  *)
(* status line, sleep.                                                     *)
(*                                                                         *)
(* Numbers are fixed point:                                                *)
(*   altitudes       1/10000 ft   (106 ft = 1060000)                       *)
(*   angles          1/10 degree  (latitude, longitude, bearings)          *)
(*   wind speeds     1/100 knot                                            *)
(*   vertical speed  1/10 m/s     (one key poll = 1)                       *)
(*   sin, cos        1/10000                                               *)
(* Strings are sequences of one-character strings.                         *)
(***************************************************************************)
EXTENDS Integers, Sequences, FiniteSets, TLC

\* ------------------------------------------------------------------------
\* Configuration (lines 8-18) and units
\* ------------------------------------------------------------------------
UPDATE_INTERVAL == 1

\* fixed-point scale of sin/cos values
TrigScale == 10000

\* 1/100 knots that carry the balloon 1/10 degree of arc in one second:
\* 0.1 deg * pi/180 * EARTH_RADIUS_KM(6371) km / (1.852/3600 km per knot-second)
\* = 21614.6 knots
CKnotsPerArcUnit == 2161460

\* vertical_speed_mps * UPDATE_INTERVAL * 3.281 ft, for one 0.1 m/s, in 1/10000 ft
FtPerVsUnit == 3281

\* alt / 3.28084 (ft -> m): 1/10000 ft per 1/10 m is 3280.84; as a ratio 328084/100
FtPerMeterNum == 328084

InitLat == 579
InitLon == 117
InitAltFt == 1060000

\* ------------------------------------------------------------------------
\* Bounds of the model
\* ------------------------------------------------------------------------
MaxTicks == 2
MaxPolls == 2

\* ------------------------------------------------------------------------
\* Arithmetic helpers
\* ------------------------------------------------------------------------
Abs(x) == IF x < 0 THEN -x ELSE x

\* a / b rounded to the nearest integer, b > 0
RDiv(a, b) == (2 * a + b) \div (2 * b)

\* ------------------------------------------------------------------------
\* math.sin / math.cos / math.asin / math.atan2 in fixed point
\* ------------------------------------------------------------------------
\* round(10000 * sin(k degrees)), k = 0 .. 90
SinTable ==
  << 0, 175, 349, 523, 698, 872, 1045, 1219, 1392, 1564, 1736, 1908, 2079,
     2250, 2419, 2588, 2756, 2924, 3090, 3256, 3420, 3584, 3746, 3907, 4067, 4226,
     4384, 4540, 4695, 4848, 5000, 5150, 5299, 5446, 5592, 5736, 5878, 6018, 6157,
     6293, 6428, 6561, 6691, 6820, 6947, 7071, 7193, 7314, 7431, 7547, 7660, 7771,
     7880, 7986, 8090, 8192, 8290, 8387, 8480, 8572, 8660, 8746, 8829, 8910, 8988,
     9063, 9135, 9205, 9272, 9336, 9397, 9455, 9511, 9563, 9613, 9659, 9703, 9744,
     9781, 9816, 9848, 9877, 9903, 9925, 9945, 9962, 9976, 9986, 9994, 9998, 10000 >>

\* sin on the first quadrant, m in 0 .. 900 tenths of a degree
SinQ1(m) ==
  LET k == m \div 10
      r == m % 10
  IN  IF r = 0 THEN SinTable[k + 1]
      ELSE SinTable[k + 1] + RDiv((SinTable[k + 2] - SinTable[k + 1]) * r, 10)

SinFx(a) ==
  LET m == a % 3600
  IN  IF m <= 900 THEN SinQ1(m)
      ELSE IF m <= 1800 THEN SinQ1(1800 - m)
      ELSE IF m <= 2700 THEN -SinQ1(m - 1800)
      ELSE -SinQ1(3600 - m)

CosFx(a) == SinFx(a + 900)

\* the angle in lo .. hi nearest to asin(v), given SinFx(lo) <= v <= SinFx(hi)
RECURSIVE AsinSearch(_, _, _)
AsinSearch(v, lo, hi) ==
  IF hi - lo <= 1
  THEN IF v - SinFx(lo) <= SinFx(hi) - v THEN lo ELSE hi
  ELSE LET mid == (lo + hi) \div 2
       IN  IF SinFx(mid) <= v THEN AsinSearch(v, mid, hi)
           ELSE AsinSearch(v, lo, mid)

\* math.asin, for -TrigScale <= v <= TrigScale; result in -900 .. 900
AsinFx(v) == AsinSearch(v, -900, 900)

\* the angle t in lo .. hi nearest to atan(y/x) for y, x >= 0, not both 0:
\* y*cos(t) - x*sin(t) falls from >= 0 at lo to <= 0 at hi
RECURSIVE AtanSearch(_, _, _, _)
AtanSearch(y, x, lo, hi) ==
  LET g(t) == y * CosFx(t) - x * SinFx(t)
  IN  IF hi - lo <= 1
      THEN IF Abs(g(lo)) <= Abs(g(hi)) THEN lo ELSE hi
      ELSE LET mid == (lo + hi) \div 2
           IN  IF g(mid) >= 0 THEN AtanSearch(y, x, mid, hi)
               ELSE AtanSearch(y, x, lo, mid)

\* math.atan2(y, x); result in -1800 .. 1800
Atan2Fx(y, x) ==
  IF x = 0 /\ y = 0 THEN 0
  ELSE LET t == AtanSearch(Abs(y), Abs(x), 0, 900)
       IN  IF x >= 0 THEN (IF y >= 0 THEN t ELSE -t)
           ELSE (IF y >= 0 THEN 1800 - t ELSE t - 1800)

\* ------------------------------------------------------------------------
\* Wind table (line 21) and interpolate_wind (lines 30-61)
\* ------------------------------------------------------------------------
\* one row of winds.txt
Row(h, b, s) == [height_ft |-> h, bearing_deg |-> b, speed_knots |-> s]

\* insert row r into the ascending sequence s
RECURSIVE InsertByHeight(_, _)
InsertByHeight(r, s) ==
  IF s = << >> THEN << r >>
  ELSE IF r.height_ft < Head(s).height_ft THEN << r >> \o s
  ELSE << Head(s) >> \o InsertByHeight(r, Tail(s))

\* winds_df.sort_values(by="height_ft")
RECURSIVE SortByHeight(_)
SortByHeight(df) ==
  IF df = << >> THEN << >>
  ELSE InsertByHeight(Head(df), SortByHeight(Tail(df)))

\* pandas Series.empty of a row taken with .iloc: a row has its three fields
RowEmpty(row) == DOMAIN row = {}

\* the result of a call: a value, or the exception it raised
Returned(b, s) == [status |-> "ok", bearing_deg |-> b, speed_knots |-> s]
Raised(e) == [status |-> e, bearing_deg |-> 0, speed_knots |-> 0]

\* the difference taken the long way round whenever it exceeds half a turn
ShorterPathNotTaken(diff) == diff

\* lines 53-54: use the shorter path around the circle
ShorterPath(diff) == IF diff > 1800 THEN diff - 3600 ELSE diff

\* lines 48-61, in the cell between two rows
Interpolate(lower_wind, upper_wind, altitude_ft) ==
  LET lower_bearing == lower_wind.bearing_deg
      upper_bearing == upper_wind.bearing_deg
      diff == (upper_bearing - lower_bearing) % 3600
      angle_difference == ShorterPath(diff)
      num == altitude_ft - lower_wind.height_ft
      den == upper_wind.height_ft - lower_wind.height_ft
      interpolated_bearing ==
        (lower_bearing + (num * angle_difference) \div den) % 3600
      interpolated_speed ==
        lower_wind.speed_knots
          + (num * (upper_wind.speed_knots - lower_wind.speed_knots)) \div den
  IN  Returned(interpolated_bearing, interpolated_speed)

interpolate_wind(df, altitude_ft) ==
  LET sorted_winds == SortByHeight(df)
      IsExact(r) == r.height_ft = altitude_ft
      IsBelow(r) == r.height_ft < altitude_ft
      IsAbove(r) == r.height_ft > altitude_ft
      exact_match == SelectSeq(sorted_winds, IsExact)
      below == SelectSeq(sorted_winds, IsBelow)
      above == SelectSeq(sorted_winds, IsAbove)
  IN  IF exact_match # << >>
      THEN Returned(exact_match[1].bearing_deg, exact_match[1].speed_knots)
      \* .iloc[-1] of an empty selection (line 40)
      ELSE IF below = << >> THEN Raised("IndexError")
      \* .iloc[0] of an empty selection (line 41)
      ELSE IF above = << >> THEN Raised("IndexError")
      ELSE LET lower_wind == below[Len(below)]
               upper_wind == above[1]
           IN  IF RowEmpty(lower_wind)
               THEN Returned(upper_wind.bearing_deg, upper_wind.speed_knots)
               ELSE IF RowEmpty(upper_wind)
               THEN Returned(lower_wind.bearing_deg, lower_wind.speed_knots)
               ELSE Interpolate(lower_wind, upper_wind, altitude_ft)

\* ------------------------------------------------------------------------
\* update_position (lines 65-100)
\* ------------------------------------------------------------------------
\* distance_km / EARTH_RADIUS_KM, as an arc in tenths of a degree
DistanceArc(speed_knots) == (speed_knots * UPDATE_INTERVAL) \div CKnotsPerArcUnit

\* a guard that stops only a zero distance
DegenerateOnlyAtZero(speed_knots) == speed_knots * UPDATE_INTERVAL = 0

\* line 70: distance_km <= 0
Degenerate(speed_knots) == speed_knots * UPDATE_INTERVAL <= 0

update_position(lat, lon, bearing, speed_knots) ==
  IF Degenerate(speed_knots) THEN << lat, lon >>
  ELSE
    LET normalized_bearing == (bearing + 1800) % 3600
        d == DistanceArc(speed_knots)
        sinLat == SinFx(lat)
        cosLat == CosFx(lat)
        sinD == SinFx(d)
        cosD == CosFx(d)
        arg == RDiv(sinLat * cosD, TrigScale)
                 + RDiv(RDiv(cosLat * sinD, TrigScale) * CosFx(normalized_bearing),
                        TrigScale)
    IN  \* math.asin outside [-1, 1]: ValueError, caught at line 98
        IF Abs(arg) > TrigScale THEN << lat, lon >>
        ELSE
          LET new_lat == AsinFx(arg)
              y == RDiv(RDiv(SinFx(normalized_bearing) * sinD, TrigScale) * cosLat,
                        TrigScale)
              x == cosD - RDiv(sinLat * SinFx(new_lat), TrigScale)
              new_lon == lon + Atan2Fx(y, x)
          IN  << new_lat, new_lon >>

\* ------------------------------------------------------------------------
\* Characters and number formatting (f-strings of lines 28, 116-123)
\* ------------------------------------------------------------------------
\* the characters a sentence is made of, and ord() of each
AsciiChars ==
  << "$", "*", ",", "-", ".", "0", "1", "2", "3", "4", "5", "6", "7", "8", "9", "A", "B", "C", "D", "E", "F", "G", "K", "M", "N", "R", "S", "T", "V", "W" >>
AsciiCodes ==
  << 36, 42, 44, 45, 46, 48, 49, 50, 51, 52, 53, 54, 55, 56, 57, 65, 66, 67, 68, 69, 70, 71, 75, 77, 78, 82, 83, 84, 86, 87 >>

AsciiOrd ==
  [c \in { AsciiChars[i] : i \in DOMAIN AsciiChars } |->
     AsciiCodes[CHOOSE i \in DOMAIN AsciiChars : AsciiChars[i] = c]]

\* ord(char)
Ord(c) == AsciiOrd[c]

\* a ^ b bit by bit
RECURSIVE XorBits(_, _)
XorBits(a, b) ==
  IF a = 0 /\ b = 0 THEN 0
  ELSE (((a % 2) + (b % 2)) % 2) + 2 * XorBits(a \div 2, b \div 2)

\* a ^ b for hex digits a and b
XorNibble == [a \in 0 .. 15 |-> [b \in 0 .. 15 |-> XorBits(a, b)]]

\* a ^ b on naturals, a hex digit at a time
RECURSIVE Xor(_, _)
Xor(a, b) ==
  IF a < 16 /\ b < 16 THEN XorNibble[a][b]
  ELSE XorNibble[a % 16][b % 16] + 16 * Xor(a \div 16, b \div 16)

DecDigits == << "0", "1", "2", "3", "4", "5", "6", "7", "8", "9" >>
HexDigits ==
  << "0", "1", "2", "3", "4", "5", "6", "7", "8", "9", "A", "B", "C", "D", "E", "F" >>

\* the digits of n >= 0 in the given base, most significant first
RECURSIVE ToDigits(_, _, _)
ToDigits(n, base, digits) ==
  IF n < base THEN << digits[n + 1] >>
  ELSE ToDigits(n \div base, base, digits) \o << digits[(n % base) + 1] >>

\* s left-padded with "0" to at least width characters
RECURSIVE ZeroPad(_, _)
ZeroPad(s, width) == IF Len(s) >= width THEN s ELSE ZeroPad(<< "0" >> \o s, width)

\* f"{n:0<width>d}" for n >= 0
FmtInt(n, width) == ZeroPad(ToDigits(n, 10, DecDigits), width)

\* f"{n:02X}" for n >= 0
FmtHex2(n) == ZeroPad(ToDigits(n, 16, HexDigits), 2)

RECURSIVE Pow10(_)
Pow10(k) == IF k = 0 THEN 1 ELSE 10 * Pow10(k - 1)

\* f"{x:.<k>f}" of x = v / 10^k, neg: the sign of x (Python prints -0.0)
FmtFixed(v, k, neg) ==
  (IF neg THEN << "-" >> ELSE << >>)
    \o ToDigits(Abs(v) \div Pow10(k), 10, DecDigits)
    \o << "." >>
    \o ZeroPad(ToDigits(Abs(v) % Pow10(k), 10, DecDigits), k)

\* ------------------------------------------------------------------------
\* calculate_checksum (lines 23-28)
\* ------------------------------------------------------------------------
\* the loop of lines 25-27 over nmea_sentence[lo .. hi]: checksum ^= ord(char)
\* for each char in turn; XOR is associative, so the fold is split in halves
\* to keep the evaluation shallow
RECURSIVE XorChars(_, _, _)
XorChars(nmea_sentence, lo, hi) ==
  IF lo > hi THEN 0
  ELSE IF lo = hi THEN Ord(nmea_sentence[lo])
  ELSE LET mid == (lo + hi) \div 2
       IN  Xor(XorChars(nmea_sentence, lo, mid), XorChars(nmea_sentence, mid + 1, hi))

\* a loop that misses the first character
calculate_checksum_from_second(nmea_sentence) ==
  FmtHex2(XorChars(nmea_sentence, 2, Len(nmea_sentence)))

calculate_checksum(nmea_sentence) ==
  FmtHex2(XorChars(nmea_sentence, 1, Len(nmea_sentence)))

\* ------------------------------------------------------------------------
\* create_nmea_sentences (lines 102-125)
\* ------------------------------------------------------------------------
\* alt / 3.28084 in tenths of a metre, rounded as {alt:.1f} rounds
AltMeters(alt) ==
  LET a == Abs(alt)
      den == FtPerMeterNum \div 4
  IN  (a \div den) * 25 + RDiv((a % den) * 25, den)

\* time.strftime("%H%M%S.6", time.gmtime()) at the clock reading t = <<h, m, s>>
TimeStr(t) == FmtInt(t[1], 2) \o FmtInt(t[2], 2) \o FmtInt(t[3], 2) \o << ".", "6" >>

\* f"${body}*{calculate_checksum(body)}"
Wrap(body) == << "$" >> \o body \o << "*" >> \o calculate_checksum(body)

create_nmea_sentences(lat, lon, alt, speed_knots, t) ==
  LET lat_deg == Abs(lat) \div 10
      lat_min == (Abs(lat) - lat_deg * 10) * 6
      lat_hemisphere == IF lat >= 0 THEN "N" ELSE "S"
      lon_deg == Abs(lon) \div 10
      lon_min == (Abs(lon) - lon_deg * 10) * 6
      lon_hemisphere == IF lon >= 0 THEN "E" ELSE "W"
      time_str == TimeStr(t)
      latStr == FmtInt(lat_deg, 2) \o FmtFixed(lat_min * 1000000, 6, FALSE)
      lonStr == FmtInt(lon_deg, 3) \o FmtFixed(lon_min * 1000000, 6, FALSE)
      speedStr == FmtFixed(speed_knots, 2, speed_knots < 0)
      altStr == FmtFixed(AltMeters(alt), 1, alt < 0)
      rmc_sentence ==
        << "G", "N", "R", "M", "C", "," >> \o time_str \o << ",", "A", "," >>
          \o latStr \o << ",", lat_hemisphere, "," >>
          \o lonStr \o << ",", lon_hemisphere, "," >>
          \o speedStr \o << ",", ",", ",", "0", "0", "2", ".", "7", ",", "E", ",", "N" >>
      gga_sentence ==
        << "G", "N", "G", "G", "A", "," >> \o time_str \o << "," >>
          \o latStr \o << ",", lat_hemisphere, "," >>
          \o lonStr \o << ",", lon_hemisphere, "," >>
          \o << "1", ",", "0", "8", ",", "0", ".", "9", "," >> \o altStr
          \o << ",", "M", ",", "0", ".", "0", ",", "M", ",", "," >>
      vtg_sentence ==
        << "G", "N", "V", "T", "G", ",", ",", "T", ",", ",", "M", "," >> \o speedStr
          \o << ",", "N", ",", ",", "K", ",", "N" >>
  IN  << Wrap(rmc_sentence), Wrap(gga_sentence), Wrap(vtg_sentence) >>

\* ------------------------------------------------------------------------
\* Inputs: the wind tables winds.txt may hold, the clock readings
\* ------------------------------------------------------------------------
\* a wrap-around cell around the start altitude, loaded out of order
WindsWrap == << Row(1100000, 100, 1000), Row(1000000, 3500, 500) >>
\* one row at the start altitude: a gale from the west
WindsGale == << Row(1060000, 2700, 1945314000) >>
\* a gale from the west at every altitude near the start
WindsStorm == << Row(900000, 2600, 1945314000), Row(1200000, 2800, 1945314000) >>
\* calm air
WindsCalm == << Row(900000, 900, 0), Row(1200000, 1800, 0) >>
\* every row above the start altitude
WindsHigh == << Row(3000000, 450, 2000), Row(2000000, 900, 1500) >>

Profiles == { WindsGale, WindsStorm, WindsHigh }

\* time.gmtime() as <<hour, minute, second>>
Times == { << 12, 0, 5 >>, << 23, 59, 59 >> }

CRLF == << "\r", "\n" >>

\* ------------------------------------------------------------------------
\* State
\* ------------------------------------------------------------------------
VARIABLES
  winds_df,            \* line 21: the rows of winds.txt, in file order
  balloon_lat,         \* line 15
  balloon_lon,         \* line 16
  balloon_alt_ft,      \* line 17
  vertical_speed_mps,  \* line 18, shared with the keyboard thread
  gps_serial,          \* line 142: "unopened", "open" or "failed"
  wind_bearing,        \* line 156
  wind_speed_knots,    \* line 156
  nmea_sentences,      \* line 164
  now,                 \* the clock reading of line 114 in this tick
  sent,                \* sentences of this tick written so far (loop of line 165)
  written,             \* everything written to the serial port, in order
  status,              \* the status line last printed (line 170), << >> if none
  pcMain,              \* where the main thread is
  exitReason,          \* why the process ended, "none" while it runs
  pcKb,                \* where the keyboard thread is
  kbLoaded,            \* the value += has computed and not yet stored
  tick,                \* history: ticks started
  before,              \* history: lat, lon, alt when the tick started
  vsUsed,              \* history: the vertical speed line 153 read
  incCount,            \* history: increases stored by the keyboard thread
  decCount             \* history: decreases stored by the keyboard thread

vars ==
  << winds_df, balloon_lat, balloon_lon, balloon_alt_ft, vertical_speed_mps,
     gps_serial, wind_bearing, wind_speed_knots, nmea_sentences, now, sent,
     written, status, pcMain, exitReason, pcKb, kbLoaded, tick, before, vsUsed,
     incCount, decCount >>

mainVars ==
  << balloon_lat, balloon_lon, balloon_alt_ft, gps_serial, wind_bearing,
     wind_speed_knots, nmea_sentences, now, sent, written, status, pcMain,
     exitReason, tick, before, vsUsed >>

kbVars == << vertical_speed_mps, pcKb, kbLoaded, incCount, decCount >>

\* the globals of lines 15-18 and the locals before their first assignment
Globals ==
  /\ vertical_speed_mps = 0
  /\ gps_serial = "unopened"
  /\ wind_bearing = 0
  /\ wind_speed_knots = 0
  /\ nmea_sentences = << >>
  /\ now = << 0, 0, 0 >>
  /\ sent = 0
  /\ written = << >>
  /\ status = << >>
  /\ exitReason = "none"
  /\ pcKb = "poll"
  /\ kbLoaded = 0
  /\ vsUsed = 0
  /\ incCount = 0
  /\ decCount = 0

Init ==
  /\ winds_df \in Profiles
  /\ balloon_lat = InitLat
  /\ balloon_lon = InitLon
  /\ balloon_alt_ft = InitAltFt
  /\ Globals
  /\ pcMain = "open"
  /\ tick = 0
  /\ before = [lat |-> InitLat, lon |-> InitLon, alt |-> InitAltFt]

\* ------------------------------------------------------------------------
\* monitor_keyboard (lines 128-135), a daemon thread started at line 139
\* ------------------------------------------------------------------------
KbRuns == exitReason = "none"

\* line 131 sees the key down: += loads the global and adds 0.1
KbPollIncrease ==
  /\ KbRuns /\ pcKb = "poll"
  /\ incCount + decCount < MaxPolls
  /\ kbLoaded' = vertical_speed_mps + 1
  /\ pcKb' = "store_inc"
  /\ UNCHANGED << vertical_speed_mps, incCount, decCount >>
  /\ UNCHANGED << winds_df, mainVars >>

\* line 133 sees the key down: -= loads the global and subtracts 0.1
KbPollDecrease ==
  /\ KbRuns /\ pcKb = "poll"
  /\ incCount + decCount < MaxPolls
  /\ kbLoaded' = vertical_speed_mps - 1
  /\ pcKb' = "store_dec"
  /\ UNCHANGED << vertical_speed_mps, incCount, decCount >>
  /\ UNCHANGED << winds_df, mainVars >>

\* neither key is down: sleep (line 135) and poll again
KbPollIdle ==
  /\ KbRuns /\ pcKb = "poll"
  /\ UNCHANGED kbVars
  /\ UNCHANGED << winds_df, mainVars >>

\* the store that ends += or -= (lines 132, 134), then the sleep of line 135
KbStore ==
  /\ KbRuns /\ pcKb \in { "store_inc", "store_dec" }
  /\ vertical_speed_mps' = kbLoaded
  /\ incCount' = IF pcKb = "store_inc" THEN incCount + 1 ELSE incCount
  /\ decCount' = IF pcKb = "store_dec" THEN decCount + 1 ELSE decCount
  /\ pcKb' = "poll"
  /\ UNCHANGED kbLoaded
  /\ UNCHANGED << winds_df, mainVars >>

\* ------------------------------------------------------------------------
\* Main thread: start-up (lines 141-149)
\* ------------------------------------------------------------------------
\* serial.Serial(...) succeeds (lines 142-143)
OpenSerial ==
  /\ pcMain = "open"
  /\ gps_serial' = "open"
  /\ pcMain' = "settle"
  /\ UNCHANGED << balloon_lat, balloon_lon, balloon_alt_ft, wind_bearing,
                  wind_speed_knots, nmea_sentences, now, sent, written, status,
                  exitReason, tick, before, vsUsed >>
  /\ UNCHANGED << winds_df, kbVars >>

\* the handler of line 144 without its exit(): the program goes on
OpenSerialFailsAndGoesOn ==
  /\ pcMain = "open"
  /\ gps_serial' = "failed"
  /\ pcMain' = "settle"
  /\ UNCHANGED << balloon_lat, balloon_lon, balloon_alt_ft, wind_bearing,
                  wind_speed_knots, nmea_sentences, now, sent, written, status,
                  exitReason, tick, before, vsUsed >>
  /\ UNCHANGED << winds_df, kbVars >>

\* serial.Serial(...) raises: print and exit() (lines 144-146)
OpenSerialFails ==
  /\ pcMain = "open"
  /\ gps_serial' = "failed"
  /\ pcMain' = "exited"
  /\ exitReason' = "open_failed"
  /\ UNCHANGED << balloon_lat, balloon_lon, balloon_alt_ft, wind_bearing,
                  wind_speed_knots, nmea_sentences, now, sent, written, status,
                  tick, before, vsUsed >>
  /\ UNCHANGED << winds_df, kbVars >>

\* time.sleep(5) (lines 148-149)
SettleWait ==
  /\ pcMain = "settle"
  /\ pcMain' = "tick"
  /\ UNCHANGED << balloon_lat, balloon_lon, balloon_alt_ft, gps_serial,
                  wind_bearing, wind_speed_knots, nmea_sentences, now, sent,
                  written, status, exitReason, tick, before, vsUsed >>
  /\ UNCHANGED << winds_df, kbVars >>

\* ------------------------------------------------------------------------
\* Main thread: one tick (lines 151-172)
\* ------------------------------------------------------------------------
\* line 153 followed by a reset of the vertical speed it has used
AdvanceAltitudeAndReset ==
  /\ pcMain = "tick"
  /\ tick < MaxTicks
  /\ balloon_alt_ft' =
       balloon_alt_ft + vertical_speed_mps * UPDATE_INTERVAL * FtPerVsUnit
  /\ vertical_speed_mps' = 0
  /\ vsUsed' = vertical_speed_mps
  /\ before' = [lat |-> balloon_lat, lon |-> balloon_lon, alt |-> balloon_alt_ft]
  /\ tick' = tick + 1
  /\ pcMain' = "wind"
  /\ UNCHANGED << balloon_lat, balloon_lon, gps_serial, wind_bearing,
                  wind_speed_knots, nmea_sentences, now, sent, written, status,
                  exitReason >>
  /\ UNCHANGED << winds_df, pcKb, kbLoaded, incCount, decCount >>

\* line 153
AdvanceAltitude ==
  /\ pcMain = "tick"
  /\ tick < MaxTicks
  /\ balloon_alt_ft' =
       balloon_alt_ft + vertical_speed_mps * UPDATE_INTERVAL * FtPerVsUnit
  /\ vsUsed' = vertical_speed_mps
  /\ before' = [lat |-> balloon_lat, lon |-> balloon_lon, alt |-> balloon_alt_ft]
  /\ tick' = tick + 1
  /\ pcMain' = "wind"
  /\ UNCHANGED << balloon_lat, balloon_lon, gps_serial, wind_bearing,
                  wind_speed_knots, nmea_sentences, now, sent, written, status,
                  exitReason >>
  /\ UNCHANGED << winds_df, kbVars >>

\* line 156 with the altitude the tick started at
QueryWindAtOldAltitude ==
  /\ pcMain = "wind"
  /\ LET w == interpolate_wind(winds_df, before.alt)
     IN  IF w.status = "ok"
         THEN /\ wind_bearing' = w.bearing_deg
              /\ wind_speed_knots' = w.speed_knots
              /\ pcMain' = "pos"
              /\ UNCHANGED exitReason
         ELSE /\ pcMain' = "exited"
              /\ exitReason' = w.status
              /\ UNCHANGED << wind_bearing, wind_speed_knots >>
  /\ UNCHANGED << balloon_lat, balloon_lon, balloon_alt_ft, gps_serial,
                  nmea_sentences, now, sent, written, status, tick, before,
                  vsUsed >>
  /\ UNCHANGED << winds_df, kbVars >>

\* line 156; an exception of interpolate_wind is caught nowhere and ends the process
QueryWind ==
  /\ pcMain = "wind"
  /\ LET w == interpolate_wind(winds_df, balloon_alt_ft)
     IN  IF w.status = "ok"
         THEN /\ wind_bearing' = w.bearing_deg
              /\ wind_speed_knots' = w.speed_knots
              /\ pcMain' = "pos"
              /\ UNCHANGED exitReason
         ELSE /\ pcMain' = "exited"
              /\ exitReason' = w.status
              /\ UNCHANGED << wind_bearing, wind_speed_knots >>
  /\ UNCHANGED << balloon_lat, balloon_lon, balloon_alt_ft, gps_serial,
                  nmea_sentences, now, sent, written, status, tick, before,
                  vsUsed >>
  /\ UNCHANGED << winds_df, kbVars >>

\* line 161
UpdatePosition ==
  /\ pcMain = "pos"
  /\ LET p == update_position(balloon_lat, balloon_lon, wind_bearing,
                              wind_speed_knots)
     IN  /\ balloon_lat' = p[1]
         /\ balloon_lon' = p[2]
  /\ pcMain' = "encode"
  /\ UNCHANGED << balloon_alt_ft, gps_serial, wind_bearing, wind_speed_knots,
                  nmea_sentences, now, sent, written, status, exitReason, tick,
                  before, vsUsed >>
  /\ UNCHANGED << winds_df, kbVars >>

\* line 164; the clock is read at line 114
EncodeSentences ==
  /\ pcMain = "encode"
  /\ \E t \in Times :
       /\ now' = t
       /\ nmea_sentences' =
            create_nmea_sentences(balloon_lat, balloon_lon, balloon_alt_ft,
                                  wind_speed_knots, t)
  /\ sent' = 0
  /\ pcMain' = "write"
  /\ UNCHANGED << balloon_lat, balloon_lon, balloon_alt_ft, gps_serial,
                  wind_bearing, wind_speed_knots, written, status, exitReason,
                  tick, before, vsUsed >>
  /\ UNCHANGED << winds_df, kbVars >>

\* one turn of the loop of lines 165-166
WriteSentence ==
  /\ pcMain = "write"
  /\ gps_serial = "open"
  /\ sent < Len(nmea_sentences)
  /\ written' = Append(written, nmea_sentences[sent + 1] \o CRLF)
  /\ sent' = sent + 1
  /\ pcMain' = IF sent + 1 = Len(nmea_sentences) THEN "print" ELSE "write"
  /\ UNCHANGED << balloon_lat, balloon_lon, balloon_alt_ft, gps_serial,
                  wind_bearing, wind_speed_knots, nmea_sentences, now, status,
                  exitReason, tick, before, vsUsed >>
  /\ UNCHANGED << winds_df, kbVars >>

\* gps_serial.write raises (line 166): caught nowhere, the process ends
WriteFails ==
  /\ pcMain = "write"
  /\ sent < Len(nmea_sentences)
  /\ pcMain' = "exited"
  /\ exitReason' = "write_failed"
  /\ UNCHANGED << balloon_lat, balloon_lon, balloon_alt_ft, gps_serial,
                  wind_bearing, wind_speed_knots, nmea_sentences, now, sent,
                  written, status, tick, before, vsUsed >>
  /\ UNCHANGED << winds_df, kbVars >>

\* line 170: the status line reads the globals as they are now
PrintStatus ==
  /\ pcMain = "print"
  /\ status' = << [lat |-> balloon_lat, lon |-> balloon_lon,
                   alt |-> balloon_alt_ft, speed |-> wind_speed_knots,
                   vs |-> vertical_speed_mps] >>
  /\ pcMain' = "sleep"
  /\ UNCHANGED << balloon_lat, balloon_lon, balloon_alt_ft, gps_serial,
                  wind_bearing, wind_speed_knots, nmea_sentences, now, sent,
                  written, exitReason, tick, before, vsUsed >>
  /\ UNCHANGED << winds_df, kbVars >>

\* line 172
TickSleep ==
  /\ pcMain = "sleep"
  /\ pcMain' = "tick"
  /\ UNCHANGED << balloon_lat, balloon_lon, balloon_alt_ft, gps_serial,
                  wind_bearing, wind_speed_knots, nmea_sentences, now, sent,
                  written, status, exitReason, tick, before, vsUsed >>
  /\ UNCHANGED << winds_df, kbVars >>

\* ------------------------------------------------------------------------
\* The program
\* ------------------------------------------------------------------------
Next ==
  \/ KbPollIncrease
  \/ KbPollDecrease
  \/ KbPollIdle
  \/ KbStore
  \/ OpenSerial
  \/ OpenSerialFails
  \/ SettleWait
  \/ AdvanceAltitude
  \/ QueryWind
  \/ UpdatePosition
  \/ EncodeSentences
  \/ WriteSentence
  \/ WriteFails
  \/ PrintStatus
  \/ TickSleep

Spec == Init /\ [][Next]_vars

\* ------------------------------------------------------------------------
\* One tick's function calls on drawn inputs: interpolate_wind, then
\* update_position, then create_nmea_sentences, from any table, altitude and
\* position
\* ------------------------------------------------------------------------
\* 350 deg at 10000 ft, 10 deg at 11000 ft
WindsExample == << Row(100000000, 3500, 2000), Row(110000000, 100, 2200) >>
\* bearings that differ by more than, and by exactly, half a turn; calm and
\* head-wind rows
WindsTurn ==
  << Row(1200000, 1700, 1500), Row(1000000, 100, 750),
     Row(1100000, 3500, 0), Row(-500000, 2700, -500) >>
\* a single row with a negative speed
WindsHead == << Row(1060000, 0, -21614600) >>

TickProfiles ==
  { WindsWrap, WindsCalm, WindsExample, WindsTurn, WindsHead, WindsGale }

TickAlts ==
  { -500000, 900000, 1000000, 1032810, 1060000, 1100000, 1150000, 1200000,
    1300000, 100000000, 105000000, 107500000, 120000000 }

TickLats == { InitLat, 0, -35 }

TickLons == { InitLon, -1795, 1799 }

InitTick ==
  /\ winds_df \in TickProfiles
  /\ balloon_alt_ft \in TickAlts
  /\ balloon_lat \in TickLats
  /\ balloon_lon \in TickLons
  /\ Globals
  /\ pcMain = "wind"
  /\ tick = 1
  /\ before = [lat |-> balloon_lat, lon |-> balloon_lon, alt |-> balloon_alt_ft]

NextTick ==
  \/ QueryWind
  \/ UpdatePosition
  \/ EncodeSentences

SpecTick == InitTick /\ [][NextTick]_vars

\* ------------------------------------------------------------------------
\* Vocabulary of the properties
\* ------------------------------------------------------------------------
Heights == { winds_df[i].height_ft : i \in DOMAIN winds_df }

RowAt(h) == winds_df[CHOOSE i \in DOMAIN winds_df : winds_df[i].height_ft = h]

SetMin(S) == CHOOSE m \in S : \A n \in S : m <= n

SetMax(S) == CHOOSE m \in S : \A n \in S : m >= n

\* the wind query of the current tick has been made at balloon_alt_ft
Queried ==
  \/ pcMain \in { "pos", "encode", "write", "print", "sleep" }
  \/ exitReason \in { "IndexError", "write_failed" }

\* the query returned and its result is in wind_bearing, wind_speed_knots
QueryReturned == Queried /\ exitReason # "IndexError"

\* the shorter way round between two bearings
CircDist(a, b) ==
  LET d == (a - b) % 3600
  IN  IF d > 1800 THEN 3600 - d ELSE d

\* C1: for a non-empty table and an altitude strictly below the lowest row the
\* query returns the lowest row's bearing and speed, strictly above the highest
\* row the highest row's; it does not fail.
C1_Clamping ==
  (Queried /\ winds_df # << >>) =>
    /\ balloon_alt_ft < SetMin(Heights) =>
         /\ QueryReturned
         /\ wind_bearing = RowAt(SetMin(Heights)).bearing_deg
         /\ wind_speed_knots = RowAt(SetMin(Heights)).speed_knots
    /\ balloon_alt_ft > SetMax(Heights) =>
         /\ QueryReturned
         /\ wind_bearing = RowAt(SetMax(Heights)).bearing_deg
         /\ wind_speed_knots = RowAt(SetMax(Heights)).speed_knots

\* C2: once the serial port is open the process ends only because a write to
\* it failed (termination from outside is not a step of the program).
C2_RunningEndsOnlyOnWriteFailure ==
  (gps_serial = "open" /\ pcMain = "exited") => exitReason = "write_failed"

\* C3: latitude stays in [-90, 90] and longitude in [-180, 180).
C3_PositionInRange ==
  /\ balloon_lat \in -900 .. 900
  /\ balloon_lon \in -1800 .. 1799

\* the altitude lies strictly between two adjacent rows of the table
InCell ==
  /\ balloon_alt_ft \notin Heights
  /\ \E h \in Heights : h < balloon_alt_ft
  /\ \E h \in Heights : h > balloon_alt_ft

LowerRow == RowAt(SetMax({ h \in Heights : h < balloon_alt_ft }))

UpperRow == RowAt(SetMin({ h \in Heights : h > balloon_alt_ft }))

\* C4: between two adjacent rows the bearing is (lower + fraction * delta) mod 360
\* with delta the difference of the bearings taken the shorter way round; it
\* lies in [0, 360) and on the shorter arc between the two bearings; 350 deg at
\* 10000 ft and 10 deg at 11000 ft give 0 deg at 10500 ft.
C4_CircularInterpolation ==
  /\ (QueryReturned /\ InCell) =>
       LET lo == LowerRow
           up == UpperRow
           delta == CHOOSE d \in -1799 .. 1800 :
                      (d - (up.bearing_deg - lo.bearing_deg)) % 3600 = 0
           num == balloon_alt_ft - lo.height_ft
           den == up.height_ft - lo.height_ft
       IN  /\ wind_bearing \in 0 .. 3599
           /\ (wind_bearing - (lo.bearing_deg + (num * delta) \div den)) % 3600 = 0
           /\ CircDist(lo.bearing_deg, wind_bearing)
                + CircDist(wind_bearing, up.bearing_deg)
                = CircDist(lo.bearing_deg, up.bearing_deg)
  /\ (QueryReturned /\ winds_df = WindsExample /\ balloon_alt_ft = 105000000) =>
       wind_bearing = 0

\* C4 witness: interpolation across the wrap, in the example and the other way
C4_Witness ==
  /\ QueryReturned /\ InCell
  /\ LowerRow.bearing_deg = 100 /\ UpperRow.bearing_deg = 3500
  /\ wind_bearing > 3500

\* ------------------------------------------------------------------------
\* Reading a sentence back
\* ------------------------------------------------------------------------
HexChars == { HexDigits[i] : i \in DOMAIN HexDigits }

HexVal(c) == (CHOOSE i \in DOMAIN HexDigits : HexDigits[i] = c) - 1

\* bit k of n
Bit(n, k) == (n \div (2 ^ k)) % 2

\* sentence is $<body>*<XX>: XX two uppercase hex digits whose bit k is the
\* parity of bit k over the character codes of the body
ChecksumValid(sentence) ==
  /\ Len(sentence) >= 4
  /\ sentence[1] = "$"
  /\ \E star \in 2 .. Len(sentence) :
       /\ sentence[star] = "*"
       /\ \A i \in 2 .. star - 1 : sentence[i] \notin { "$", "*" }
       /\ Len(sentence) = star + 2
       /\ sentence[star + 1] \in HexChars
       /\ sentence[star + 2] \in HexChars
       /\ LET xx == 16 * HexVal(sentence[star + 1]) + HexVal(sentence[star + 2])
          IN  \A k \in 0 .. 7 :
                Bit(xx, k)
                  = Cardinality({ i \in 2 .. star - 1 :
                                    Bit(Ord(sentence[i]), k) = 1 }) % 2

\* C5: every sentence create_nmea_sentences returns is $<body>*<XX> with XX the
\* two uppercase hex digits of the XOR of the character codes of the body.
C5_ChecksumRoundTrip ==
  \A i \in DOMAIN nmea_sentences : ChecksumValid(nmea_sentences[i])

\* C5 witness: three sentences encoded from a southern, western position
C5_Witness ==
  /\ pcMain = "write"
  /\ Len(nmea_sentences) = 3
  /\ balloon_lat < 0 /\ balloon_lon < 0

\* C6: when opening the serial port fails the process has exited: no tick was
\* run, nothing was written, and latitude, longitude and altitude are as they
\* started.
C6_StartupFailureIsFatal ==
  gps_serial = "failed" =>
    /\ pcMain = "exited"
    /\ exitReason = "open_failed"
    /\ tick = 0
    /\ written = << >>
    /\ balloon_lat = InitLat
    /\ balloon_lon = InitLon
    /\ balloon_alt_ft = InitAltFt

\* C6 witness: the open failed after the keyboard thread had already run
C6_Witness ==
  /\ gps_serial = "failed"
  /\ vertical_speed_mps # 0

\* the position of this tick has been propagated
Propagated == pcMain \in { "encode", "write", "print", "sleep" }

\* C7: with a wind speed that gives distance_km <= 0, update_position returns
\* its input: the tick leaves latitude and longitude as they were.
C7_DegenerateStepIsNoOp ==
  (Propagated /\ wind_speed_knots * UPDATE_INTERVAL <= 0) =>
    /\ balloon_lat = before.lat
    /\ balloon_lon = before.lon

\* C7 witness: a tick propagated with a negative wind speed
C7_Witness ==
  /\ Propagated
  /\ wind_speed_knots < 0
  /\ balloon_lat = before.lat
  /\ balloon_lon = before.lon

\* the first five characters after "$"
Kind(bytes) == SubSeq(bytes, 2, 6)

KindOrder ==
  << << "G", "N", "R", "M", "C" >>, << "G", "N", "G", "G", "A" >>,
     << "G", "N", "V", "T", "G" >> >>

\* sentences of earlier ticks, all written
WrittenBefore == 3 * (tick - 1)

\* C8: in a tick the altitude is advanced first, the wind is queried at the
\* advanced altitude, the position is propagated with that wind, the sentences
\* are encoded from the new position and altitude and that wind speed, and the
\* three sentences are written in the order RMC, GGA, VTG, each followed by
\* CRLF; the sentences of a tick are written after its state update and before
\* the next one.
C8_TickOrdering ==
  /\ tick >= 1 =>
       balloon_alt_ft = before.alt + vsUsed * UPDATE_INTERVAL * FtPerVsUnit
  /\ QueryReturned =>
       interpolate_wind(winds_df, balloon_alt_ft)
         = Returned(wind_bearing, wind_speed_knots)
  /\ (QueryReturned /\ pcMain # "pos") =>
       << balloon_lat, balloon_lon >>
         = update_position(before.lat, before.lon, wind_bearing, wind_speed_knots)
  /\ (QueryReturned /\ pcMain \notin { "pos", "encode" }) =>
       /\ nmea_sentences
            = create_nmea_sentences(balloon_lat, balloon_lon, balloon_alt_ft,
                                    wind_speed_knots, now)
       /\ Len(written) = WrittenBefore + sent
       /\ \A i \in 1 .. sent :
            written[WrittenBefore + i] = nmea_sentences[i] \o CRLF
       /\ pcMain \in { "print", "sleep" } => sent = 3
  /\ pcMain \in { "tick", "wind", "pos", "encode" } =>
       Len(written) = IF pcMain = "tick" THEN 3 * tick ELSE WrittenBefore
  /\ \A i \in DOMAIN written :
       /\ Kind(written[i]) = KindOrder[((i - 1) % 3) + 1]
       /\ SubSeq(written[i], Len(written[i]) - 1, Len(written[i])) = CRLF

\* C8 witness: the second tick, all three sentences written, after a climb
C8_Witness ==
  /\ tick = 2
  /\ pcMain = "print"
  /\ Len(written) = 6
  /\ vsUsed # 0
  /\ balloon_lon # before.lon

\* C9: only the keyboard thread writes vertical_speed_mps, one step of 0.1 at a
\* time, and no adjustment is lost: it is always 0.1 * (increases applied -
\* decreases applied); latitude, longitude and altitude change only in steps of
\* the tick loop.
C9_SharedStateDiscipline ==
  /\ [](vertical_speed_mps = incCount - decCount)
  /\ [][vertical_speed_mps' # vertical_speed_mps =>
          /\ pcKb \in { "store_inc", "store_dec" }
          /\ UNCHANGED mainVars
          /\ vertical_speed_mps' - vertical_speed_mps \in { -1, 1 }]_vars
  /\ [][<< balloon_lat, balloon_lon, balloon_alt_ft >>'
          # << balloon_lat, balloon_lon, balloon_alt_ft >> =>
          /\ pcMain \in { "tick", "pos" }
          /\ pcMain' # pcMain
          /\ UNCHANGED kbVars]_vars

\* C9 witness: an increase and a decrease applied while the tick loop runs
C9_Witness ==
  /\ incCount = 1
  /\ decCount = 1
  /\ vertical_speed_mps = 0
  /\ tick = 2
  /\ balloon_alt_ft # InitAltFt

\* C10: the vertical speed a tick integrates is the one its status line reports.
C10_StatusReportsIntegratedSpeed ==
  (pcMain = "sleep" /\ status # << >>) => status[1].vs = vsUsed

====
